---------------------------- MODULE Spec2Model ----------------------------
(***************************************************************************)
(* Agent dispatch and session state of base-trading-agent.                 *)
(*                                                                         *)
(*   - the chat endpoint (app/api/chat/route.ts) and the agent-server      *)
(*     endpoint (app/api/agents/route.ts);                                 *)
(*   - the handlers' shouldHandleMessage / suggestNextAgent predicates;    *)
(*   - the MiniAppAgent, GameAgent and UtilityAgent session stores.        *)
(*                                                                         *)
(* Strings whose characters matter (message text, agent names) are tuples  *)
(* of one-character strings, so that toLowerCase() and includes() are      *)
(* computed and not assumed.                                               *)
(***************************************************************************)
EXTENDS Integers, Sequences, FiniteSets, Bags, TLC

VARIABLES
  \* app/api/agents/route.ts, app/api/chat/route.ts
  agentServer,     \* global.agentServer: a server instance id, or NoServer
  servers,         \* the BaseAgentsServer instances created so far: id -> state
  adminReqs,       \* POST /api/agents requests suspended at an await
  chatReqs,        \* POST /api/chat requests suspended in processMessage
  chatLog,         \* the last response POST /api/chat returned
  \* the Router's hand-off for one message
  route,
  \* MiniAppAgent
  sessionObjs,     \* every MiniAppSession object created, by id (startTime,
                   \* which nothing reads, is left out)
  activeSessions,  \* the keys of the activeSessions map
  userSessions,    \* userId -> session ids
  appCalls,        \* interactWithApp calls suspended at their await (a bag)
  appResult,       \* what the last MiniAppAgent operation returned or threw
  now,             \* the clock read by new Date()
  \* GameAgent
  activeGames,     \* every GameSession stored, by id (the Date fields, which
                   \* nothing reads, are left out)
  gameResult,      \* what the last GameAgent operation returned or threw
  \* UtilityAgent (src/lib) and UtilityAgent with AgentKit (part_001)
  paymentSplits,   \* the splits createPaymentSplit stored, in order
  agentKit,        \* whether this.agentKit is set
  kitSplits,       \* the AgentKit agent's paymentSplits map, by split id
  kitCalls,        \* create_payment_split runs waiting on transfers (a bag)
  kitResult,       \* what the last create_payment_split run returned
  events,          \* the events createEvent stored, in order (src/lib)
  walletProvider,  \* whether this.walletProvider is set
  eventPlans,      \* the AgentKit agent's eventPlans map, by event id
  expenses,        \* the AgentKit agent's expenses map: paidBy -> expenses
  eventCalls,      \* plan_event runs waiting on the wallet (a bag)
  eventResult,     \* what the last plan_event or add_expense run returned
  reimbCalls,      \* process_reimbursements runs between transfers (a bag)
  reimbResult,     \* what the last process_reimbursements run returned
  ledger,          \* the reimbursement transfers that succeeded (a bag)
  \* handleMessage of the UtilityAgent, TradingAgent (src/lib) and GameAgent
  llmCalls,        \* handleMessage runs waiting on processWithLLM (a bag)
  handled          \* what the last handleMessage run returned or threw

chatVars == <<agentServer, servers, adminReqs, chatReqs, chatLog>>
appVars == <<sessionObjs, activeSessions, userSessions, appCalls, appResult, now>>

gameVars == <<activeGames, gameResult>>

splitVars == <<paymentSplits, agentKit, kitSplits, kitCalls, kitResult>>

reimbVars == <<reimbCalls, reimbResult, ledger>>

eventVars ==
  <<events, walletProvider, eventPlans, expenses, eventCalls, eventResult,
    reimbVars>>

handleVars == <<llmCalls, handled>>

vars == <<chatVars, route, appVars, gameVars, splitVars, eventVars, handleVars>>

-----------------------------------------------------------------------------
(* Bounds of the model *)

MaxServers == 2        \* BaseAgentsServer instances ever created
MaxAdminReqs == 2      \* POST /api/agents requests in flight at once
MaxChatReqs == 1       \* POST /api/chat requests in flight at once
MaxSessions == 1       \* MiniAppSessions ever launched
MaxAppCalls == 1       \* interactWithApp calls in flight at once
MaxClock == 1          \* ticks of the clock
MaxGames == 1          \* GameSessions ever started
MaxScore == 10         \* a move is taken only while the score stays within this
MaxBets == 1           \* bets placed on one game
MaxPlayers == 4        \* joinGame is taken only while the game has fewer players
MaxSplits == 2         \* splits createPaymentSplit has stored
MaxKitCalls == 1       \* create_payment_split runs in flight at once
MaxEvents == 1         \* events createEvent has stored
MaxEventCalls == 1     \* plan_event runs in flight at once
MaxExpenses == 1       \* expenses one payer has added
MaxLLMCalls == 1       \* handleMessage runs in flight at once
MaxReimbCalls == 2     \* process_reimbursements runs in flight at once
MaxTransfers == 2      \* a run starts only while fewer transfers have succeeded

-----------------------------------------------------------------------------
(* String.prototype.toLowerCase and String.prototype.includes *)

UpperChars == <<"A","B","C","D","E","F","G","H","I","J","K","L","M",
                "N","O","P","Q","R","S","T","U","V","W","X","Y","Z">>
LowerChars == <<"a","b","c","d","e","f","g","h","i","j","k","l","m",
                "n","o","p","q","r","s","t","u","v","w","x","y","z">>

LowerChar(c) ==
  IF \E i \in 1..Len(UpperChars) : UpperChars[i] = c
  THEN LowerChars[CHOOSE i \in 1..Len(UpperChars) : UpperChars[i] = c]
  ELSE c

toLowerCase(s) == [i \in 1..Len(s) |-> LowerChar(s[i])]

includes(s, sub) ==
  \E i \in 0..(Len(s) - Len(sub)) : SubSeq(s, i + 1, i + Len(sub)) = sub

\* Array.prototype.some(keyword => content.includes(keyword))
someIncluded(keywords, content) ==
  \E k \in 1..Len(keywords) : includes(content, keywords[k])

-----------------------------------------------------------------------------
(* Agent names *)

masterName  == <<"m","a","s","t","e","r">>
utilityName == <<"u","t","i","l","i","t","y">>
tradingName == <<"t","r","a","d","i","n","g">>
gameName    == <<"g","a","m","e">>
gamingName  == <<"g","a","m","i","n","g">>
socialName  == <<"s","o","c","i","a","l">>
miniappName == <<"m","i","n","i","a","p","p">>

-----------------------------------------------------------------------------
(* shouldHandleMessage: the keyword lists *)

tradingKeywords ==
  << <<"t","r","a","d","e">>, <<"s","w","a","p">>, <<"b","u","y">>,
     <<"s","e","l","l">>, <<"d","e","f","i">>, <<"t","o","k","e","n">>,
     <<"p","r","i","c","e">>, <<"p","o","r","t","f","o","l","i","o">>, <<"b","a","l","a","n","c","e">>,
     <<"u","n","i","s","w","a","p">>, <<"d","e","x">>, <<"y","i","e","l","d">>,
     <<"l","i","q","u","i","d","i","t","y">>, <<"f","a","r","m","i","n","g">>, <<"d","e","p","l","o","y">>,
     <<"t","r","a","n","s","f","e","r">>, <<"s","e","n","d">>, <<"r","e","c","e","i","v","e">>,
     <<"w","a","l","l","e","t">>, <<"t","r","a","n","s","a","c","t","i","o","n">>, <<"b","l","o","c","k","c","h","a","i","n">>,
     <<"e","t","h">>, <<"u","s","d","c">>, <<"w","e","t","h">>,
     <<"b","a","s","e">>, <<"s","e","p","o","l","i","a">>, <<"f","a","u","c","e","t">>,
     <<"t","e","s","t","n","e","t">> >>

utilityKeywords ==
  << <<"e","v","e","n","t">>, <<"p","l","a","n">>, <<"p","a","y","m","e","n","t">>,
     <<"s","p","l","i","t">>, <<"e","x","p","e","n","s","e">>, <<"c","o","s","t">>,
     <<"w","a","l","l","e","t">>, <<"s","h","a","r","e","d">> >>

gameKeywords ==
  << <<"g","a","m","e">>, <<"p","l","a","y">>, <<"t","r","i","v","i","a">>,
     <<"q","u","i","z">>, <<"b","e","t">>, <<"w","a","g","e","r">>,
     <<"c","h","a","l","l","e","n","g","e">>, <<"c","o","m","p","e","t","e">>, <<"t","o","u","r","n","a","m","e","n","t">>,
     <<"f","u","n">>, <<"e","n","t","e","r","t","a","i","n","m","e","n","t">> >>

socialKeywords ==
  << <<"n","e","w","s">>, <<"t","r","e","n","d","i","n","g">>, <<"c","o","n","t","e","n","t">>,
     <<"s","o","c","i","a","l">>, <<"f","e","e","d">>, <<"r","e","c","o","m","m","e","n","d">>,
     <<"c","r","y","p","t","o"," ","n","e","w","s">>, <<"u","p","d","a","t","e","s">>, <<"s","e","n","t","i","m","e","n","t">>,
     <<"c","o","m","m","u","n","i","t","y">>, <<"s","h","a","r","e">> >>

miniappKeywords ==
  << <<"a","p","p">>, <<"t","o","o","l">>, <<"l","a","u","n","c","h">>,
     <<"o","p","e","n">>, <<"c","a","l","c","u","l","a","t","e">>, <<"c","o","n","v","e","r","t">>,
     <<"p","o","l","l">>, <<"c","a","l","c","u","l","a","t","o","r">>, <<"c","o","n","v","e","r","t","e","r">>,
     <<"u","t","i","l","i","t","y">>, <<"m","i","n","i","-","a","p","p">>, <<"m","i","n","i","a","p","p">> >>

\* The five specialised handlers, by the name the chat endpoint gives each.
Handlers == {utilityName, tradingName, gameName, socialName, miniappName}

keywordsOf(h) ==
  CASE h = utilityName -> utilityKeywords
    [] h = tradingName -> tradingKeywords
    [] h = gameName    -> gameKeywords
    [] h = socialName  -> socialKeywords
    [] h = miniappName -> miniappKeywords

\* const content = message.content.toLowerCase();
\* return keywords.some(keyword => content.includes(keyword));
shouldHandleMessage(h, content) ==
  someIncluded(keywordsOf(h), toLowerCase(content))

-----------------------------------------------------------------------------
(* suggestNextAgent, one per handler *)

kw_trade   == <<"t","r","a","d","e">>
kw_defi    == <<"d","e","f","i">>
kw_game    == <<"g","a","m","e">>
kw_play    == <<"p","l","a","y">>
kw_event   == <<"e","v","e","n","t">>
kw_payment == <<"p","a","y","m","e","n","t">>
kw_split   == <<"s","p","l","i","t">>
kw_social  == <<"s","o","c","i","a","l">>
kw_content == <<"c","o","n","t","e","n","t">>
kw_news    == <<"n","e","w","s">>
kw_app     == <<"a","p","p">>
kw_tool    == <<"t","o","o","l">>

utilitySuggestNextAgent(content) ==
  LET c == toLowerCase(content) IN
  IF includes(c, kw_trade) \/ includes(c, kw_defi) THEN tradingName
  ELSE IF includes(c, kw_game) \/ includes(c, kw_play) THEN gamingName
  ELSE IF includes(c, kw_social) \/ includes(c, kw_content) THEN socialName
  ELSE masterName

tradingSuggestNextAgent(content) ==
  LET c == toLowerCase(content) IN
  IF includes(c, kw_event) \/ includes(c, kw_payment) \/ includes(c, kw_split)
  THEN utilityName
  ELSE IF includes(c, kw_game) \/ includes(c, kw_play) THEN gameName
  ELSE IF includes(c, kw_social) \/ includes(c, kw_content) THEN socialName
  ELSE IF includes(c, kw_app) \/ includes(c, kw_tool) THEN miniappName
  ELSE masterName

gameSuggestNextAgent(content) ==
  LET c == toLowerCase(content) IN
  IF includes(c, kw_trade) \/ includes(c, kw_defi) THEN tradingName
  ELSE IF includes(c, kw_event) \/ includes(c, kw_payment) THEN utilityName
  ELSE IF includes(c, kw_social) \/ includes(c, kw_content) THEN socialName
  ELSE masterName

socialSuggestNextAgent(content) ==
  LET c == toLowerCase(content) IN
  IF includes(c, kw_trade) \/ includes(c, kw_defi) THEN tradingName
  ELSE IF includes(c, kw_game) \/ includes(c, kw_play) THEN gamingName
  ELSE IF includes(c, kw_event) \/ includes(c, kw_payment) THEN utilityName
  ELSE IF includes(c, kw_app) \/ includes(c, kw_tool) THEN miniappName
  ELSE masterName

miniappSuggestNextAgent(content) ==
  LET c == toLowerCase(content) IN
  IF includes(c, kw_trade) \/ includes(c, kw_defi) THEN tradingName
  ELSE IF includes(c, kw_game) \/ includes(c, kw_play) THEN gamingName
  ELSE IF includes(c, kw_event) \/ includes(c, kw_payment) THEN utilityName
  ELSE IF includes(c, kw_news) \/ includes(c, kw_social) THEN socialName
  ELSE masterName

suggestNextAgent(h, content) ==
  CASE h = utilityName -> utilitySuggestNextAgent(content)
    [] h = tradingName -> tradingSuggestNextAgent(content)
    [] h = gameName    -> gameSuggestNextAgent(content)
    [] h = socialName  -> socialSuggestNextAgent(content)
    [] h = miniappName -> miniappSuggestNextAgent(content)

-----------------------------------------------------------------------------
(* POST /api/agents: start, stop and restart of the agent server *)

NoServer == 0

\* new BaseAgentsServer(): the instance is created and its start() is entered
newServer(ss) == Append(ss, "starting")

\* global.agentServer && global.agentServer.getSystemHealth().status === 'healthy'
isHealthy(gs, ss) == gs # NoServer /\ ss[gs] = "healthy"

\* case 'start'
AdminStart ==
  /\ Cardinality(adminReqs) < MaxAdminReqs
  /\ IF isHealthy(agentServer, servers)
     THEN UNCHANGED <<agentServer, servers, adminReqs>>
     ELSE /\ Len(servers) < MaxServers
          /\ servers' = newServer(servers)
          /\ agentServer' = Len(servers) + 1
          /\ adminReqs' = adminReqs \cup
               {[action |-> "start", pc |-> "start", inst |-> Len(servers) + 1]}
  /\ UNCHANGED <<chatReqs, chatLog, route, appVars, gameVars, splitVars, eventVars, handleVars>>

\* await global.agentServer.start() returns, or throws into the catch (500)
AdminStartDone(r, ok) ==
  /\ r \in adminReqs /\ r.pc = "start"
  /\ servers' = [servers EXCEPT ![r.inst] = IF ok THEN "healthy" ELSE "failed"]
  /\ adminReqs' = adminReqs \ {r}
  /\ UNCHANGED <<agentServer, chatReqs, chatLog, route, appVars, gameVars, splitVars, eventVars, handleVars>>

\* case 'stop'
AdminStop ==
  /\ Cardinality(adminReqs) < MaxAdminReqs
  /\ IF agentServer = NoServer
     THEN UNCHANGED <<servers, adminReqs>>
     ELSE /\ servers' = [servers EXCEPT ![agentServer] = "stopping"]
          /\ adminReqs' = adminReqs \cup
               {[action |-> "stop", pc |-> "stop", inst |-> agentServer]}
  /\ UNCHANGED <<agentServer, chatReqs, chatLog, route, appVars, gameVars, splitVars, eventVars, handleVars>>

\* await global.agentServer.stop() returns (then global.agentServer = undefined),
\* or throws into the catch (500)
AdminStopDone(r, ok) ==
  /\ r \in adminReqs /\ r.action = "stop" /\ r.pc = "stop"
  /\ servers' = [servers EXCEPT ![r.inst] = IF ok THEN "stopped" ELSE "failed"]
  /\ agentServer' = IF ok THEN NoServer ELSE agentServer
  /\ adminReqs' = adminReqs \ {r}
  /\ UNCHANGED <<chatReqs, chatLog, route, appVars, gameVars, splitVars, eventVars, handleVars>>

\* case 'restart'
AdminRestart ==
  /\ Cardinality(adminReqs) < MaxAdminReqs
  /\ IF agentServer # NoServer
     THEN /\ servers' = [servers EXCEPT ![agentServer] = "stopping"]
          /\ adminReqs' = adminReqs \cup
               {[action |-> "restart", pc |-> "stop", inst |-> agentServer]}
          /\ UNCHANGED agentServer
     ELSE /\ Len(servers) < MaxServers
          /\ servers' = newServer(servers)
          /\ agentServer' = Len(servers) + 1
          /\ adminReqs' = adminReqs \cup
               {[action |-> "restart", pc |-> "start", inst |-> Len(servers) + 1]}
  /\ UNCHANGED <<chatReqs, chatLog, route, appVars, gameVars, splitVars, eventVars, handleVars>>

\* restart: the await of stop() returns and the new instance is created and
\* started, or stop() throws into the catch (500)
AdminRestartStopped(r, ok) ==
  /\ r \in adminReqs /\ r.action = "restart" /\ r.pc = "stop"
  /\ IF ok
     THEN /\ Len(servers) < MaxServers
          /\ servers' = newServer([servers EXCEPT ![r.inst] = "stopped"])
          /\ agentServer' = Len(servers) + 1
          /\ adminReqs' = (adminReqs \ {r}) \cup
               {[action |-> "restart", pc |-> "start", inst |-> Len(servers) + 1]}
     ELSE /\ servers' = [servers EXCEPT ![r.inst] = "failed"]
          /\ adminReqs' = adminReqs \ {r}
          /\ UNCHANGED agentServer
  /\ UNCHANGED <<chatReqs, chatLog, route, appVars, gameVars, splitVars, eventVars, handleVars>>

-----------------------------------------------------------------------------
(* POST /api/chat and processMessage *)

\* Request bodies: message text, a value that is no string, or no value
NotAString == <<"#not-a-string">>
Absent == <<"#undefined">>

Words ==
  { <<"S","w","a","p">>, <<"p","l","a","y">>, <<"h","e","l","l","o">>,
    <<"p","l","a","n">>, <<"s","o","c","i","a","l">>, <<"a","p","p">>,
    <<"N","e","w","s">>, <<"t","r","a","d","e">>, <<"e","v","e","n","t">> }

\* message texts: one word, two words, and one of three
Messages ==
  Words
  \cup {w1 \o <<" ">> \o w2 : w1 \in Words, w2 \in Words}
  \cup {<<"p","l","a","n"," ","s","o","c","i","a","l"," ","a","p","p">>}

\* the request bodies POST /api/chat is exercised with
ChatMessages ==
  { <<"S","w","a","p">>, <<"h","e","l","l","o">>, <<"w","a","l","l","e","t">> }

MessageInputs == ChatMessages \cup {<<>>, NotAString, Absent}

AgentTypeInputs ==
  { Absent, NotAString, tradingName, gamingName, <<"T","r","a","d","i","n","g">> }

\* the keys of agentResponses
agentResponseKeys ==
  {masterName, utilityName, tradingName, gameName, socialName, miniappName}

\* const selectedAgent = agentType?.toLowerCase() || 'master';
selectedAgentOf(agentType) ==
  IF agentType = Absent \/ agentType = <<>> THEN masterName
  ELSE IF toLowerCase(agentType) = <<>> THEN masterName
  ELSE toLowerCase(agentType)

\* agentResponses[selectedAgent] || agentResponses.master
responseOf(selectedAgent) ==
  IF selectedAgent \in agentResponseKeys THEN selectedAgent ELSE masterName

NoResponse ==
  [status |-> 0, message |-> Absent, agentType |-> Absent,
   agent |-> Absent, text |-> Absent]

ErrorResponse(code) ==
  [status |-> code, message |-> Absent, agentType |-> Absent,
   agent |-> Absent, text |-> Absent]

\* an error thrown inside POST, as it would leave POST if nothing caught it
RawException ==
  [status |-> 0 - 1, message |-> Absent, agentType |-> Absent,
   agent |-> Absent, text |-> Absent]

\* a catch clause that throws the error on
catchRethrows(error) == error

\* POST's catch clause: the error is logged and a 500 response is returned
catch(error) == ErrorResponse(500)

\* processMessage up to its await: the responder is chosen here
processMessage(message, agentType) ==
  [status |-> 200, message |-> message, agentType |-> agentType,
   agent |-> selectedAgentOf(agentType),
   text |-> responseOf(selectedAgentOf(agentType))]

\* POST: the body is parsed and validated, the server reference is tested, and
\* processMessage runs up to its timer
ChatPost(parses, message, agentType) ==
  /\ Cardinality(chatReqs) < MaxChatReqs
  /\ IF ~parses
     THEN chatLog' = catch(RawException) /\ UNCHANGED chatReqs
     ELSE IF message = Absent \/ message = NotAString \/ message = <<>>
     THEN chatLog' = ErrorResponse(400) /\ UNCHANGED chatReqs
     ELSE IF agentServer = NoServer
     THEN chatLog' = ErrorResponse(503) /\ UNCHANGED chatReqs
     ELSE IF agentType = NotAString
     THEN chatLog' = catch(RawException) /\ UNCHANGED chatReqs
     ELSE /\ chatReqs' = chatReqs \cup {processMessage(message, agentType)}
          /\ UNCHANGED chatLog
  /\ UNCHANGED <<agentServer, servers, adminReqs, route, appVars, gameVars, splitVars, eventVars, handleVars>>

\* the timer of processMessage fires and POST returns the response
ChatPostReturn(r) ==
  /\ r \in chatReqs
  /\ chatReqs' = chatReqs \ {r}
  /\ chatLog' = r
  /\ UNCHANGED <<agentServer, servers, adminReqs, route, appVars, gameVars, splitVars, eventVars, handleVars>>

-----------------------------------------------------------------------------
(* The Router: selection among the registered handlers and the hand-off *)

\* the registry, in registration order
Registry == <<utilityName, tradingName, gameName, socialName, miniappName>>

isRegistered(name) == \E i \in 1..Len(Registry) : Registry[i] = name

\* hand-off is capped at one hop
MaxHops == 1

mayRedispatchUncapped(hops) == TRUE

mayRedispatch(hops) == hops < MaxHops

\* the first registered handler, in registration order, whose shouldHandle is true
selectHandler(content) ==
  LET cands == {i \in 1..Len(Registry) : shouldHandleMessage(Registry[i], content)}
  IN  IF cands = {} THEN masterName
      ELSE Registry[CHOOSE i \in cands : \A j \in cands : i <= j]

IdleRoute ==
  [pc |-> "idle", message |-> <<>>, current |-> Absent, responder |-> Absent,
   hops |-> 0, trail |-> <<>>, declined |-> <<>>]

\* an inbound message reaches the Router and a handler is selected
RouterDispatch(m) ==
  /\ route.pc \in {"idle", "done"}
  /\ route' = [pc |-> IF selectHandler(m) = masterName THEN "master" ELSE "handle",
               message |-> m, current |-> selectHandler(m), responder |-> Absent,
               hops |-> 0, trail |-> <<selectHandler(m)>>, declined |-> <<>>]
  /\ UNCHANGED <<chatVars, appVars, gameVars, splitVars, eventVars, handleVars>>

\* the handler whose handle is invoked answers
HandlerResponds ==
  /\ route.pc = "handle"
  /\ route' = [route EXCEPT !.pc = "done", !.responder = route.current]
  /\ UNCHANGED <<chatVars, appVars, gameVars, splitVars, eventVars, handleVars>>

\* the handler declines and names the next handler: one re-dispatch to a
\* registered handler, otherwise Master answers
HandlerDeclines ==
  /\ route.pc = "handle"
  /\ LET next == suggestNextAgent(route.current, route.message) IN
     IF mayRedispatch(route.hops) /\ isRegistered(next)
     THEN route' = [route EXCEPT !.current = next, !.hops = @ + 1,
                                 !.trail = Append(@, next),
                                 !.declined = Append(@, route.current)]
     ELSE route' = [route EXCEPT !.pc = "done", !.responder = masterName,
                                 !.declined = Append(@, route.current)]
  /\ UNCHANGED <<chatVars, appVars, gameVars, splitVars, eventVars, handleVars>>

\* the handler throws during handle: the Router falls back to Master
HandlerThrows ==
  /\ route.pc = "handle"
  /\ route' = [route EXCEPT !.pc = "done", !.responder = masterName]
  /\ UNCHANGED <<chatVars, appVars, gameVars, splitVars, eventVars, handleVars>>

\* no handler claimed the message: Master processes it, delegating once when
\* some handler's suggestion names a registered handler
MasterHandles ==
  /\ route.pc = "master"
  /\ LET sugg == {i \in 1..Len(Registry) :
                    isRegistered(suggestNextAgent(Registry[i], route.message))}
     IN  IF sugg # {} /\ mayRedispatch(route.hops)
         THEN LET next == suggestNextAgent(
                            Registry[CHOOSE i \in sugg : \A j \in sugg : i <= j],
                            route.message)
              IN route' = [route EXCEPT !.pc = "handle", !.current = next,
                                        !.hops = @ + 1, !.trail = Append(@, next)]
         ELSE route' = [route EXCEPT !.pc = "done", !.responder = masterName]
  /\ UNCHANGED <<chatVars, appVars, gameVars, splitVars, eventVars, handleVars>>

-----------------------------------------------------------------------------
(* MiniAppAgent: launchApp, interactWithApp, closeApp, getAppState *)

\* initializeApps(): the ids of availableApps
availableApps ==
  {"calculator", "currency-converter", "poll-creator", "expense-tracker",
   "token-scanner", "nft-viewer"}

\* a plain object: a function from its keys; {} and undefined read alike
EmptyObject == [k \in {} |-> 0]

Has(obj, k) == k \in DOMAIN obj

\* a spread that drops the second object
SpreadLeft(a, b) == a

\* { ...a, ...b }
Spread(a, b) ==
  [k \in DOMAIN a \cup DOMAIN b |-> IF k \in DOMAIN b THEN b[k] ELSE a[k]]

Object1(k, v) == [x \in {k} |-> v]

\* evaluateExpression: the characters the sanitiser keeps
mathChars ==
  {"0","1","2","3","4","5","6","7","8","9","+","-","*","/",".","(",")"," "}

sanitize(expression) == SelectSeq(expression, LAMBDA c : c \in mathChars)

\* Function(`"use strict"; return (${sanitized})`)() on the expressions used:
\* a number, or "throws" when the text is no expression
evalFunction(sanitized) ==
  CASE sanitized = <<"2","+","2">> -> [throws |-> FALSE, value |-> 4]
    [] sanitized = <<"1","0","*","5">> -> [throws |-> FALSE, value |-> 50]
    [] OTHER -> [throws |-> TRUE, value |-> 0]

evaluateExpression(expression) ==
  IF sanitize(expression) # expression
  THEN [throws |-> TRUE, value |-> 0]
  ELSE evalFunction(sanitize(expression))

Fail(msg) == [success |-> FALSE, message |-> msg, newState |-> EmptyObject]

Success(msg, newState) ==
  [success |-> TRUE, message |-> msg, newState |-> newState]

handleCalculatorInteraction(session, action, data) ==
  IF action = "calculate" /\ Has(data, "expression") /\ data["expression"] # <<>>
  THEN IF evaluateExpression(data["expression"]).throws
       THEN Fail("Invalid expression")
       ELSE Success("expression = result",
              Object1("lastCalculation",
                [expression |-> data["expression"],
                 result |-> evaluateExpression(data["expression"]).value]))
  ELSE Fail("Invalid calculator action")

\* getMockConversionRate, as <<numerator, denominator>>; 1 for a pair the
\* table lacks
getMockConversionRate(from, to) ==
  CASE from = "USD" /\ to = "ETH" -> <<3, 10000>>
    [] from = "USD" /\ to = "BTC" -> <<15, 1000000>>
    [] from = "USD" /\ to = "EUR" -> <<85, 100>>
    [] from = "ETH" /\ to = "USD" -> <<3500, 1>>
    [] from = "ETH" /\ to = "BTC" -> <<5, 100>>
    [] from = "ETH" /\ to = "EUR" -> <<2975, 1>>
    [] from = "BTC" /\ to = "USD" -> <<67000, 1>>
    [] from = "BTC" /\ to = "ETH" -> <<20, 1>>
    [] from = "BTC" /\ to = "EUR" -> <<56950, 1>>
    [] from = "EUR" /\ to = "USD" -> <<118, 100>>
    [] from = "EUR" /\ to = "ETH" -> <<34, 100000>>
    [] from = "EUR" /\ to = "BTC" -> <<18, 1000000>>
    [] OTHER -> <<1, 1>>

\* String.prototype.toUpperCase on the currency codes used
toUpperCase(code) ==
  CASE code = "usd" -> "USD"
    [] code = "eth" -> "ETH"
    [] OTHER -> code

handleConverterInteraction(session, action, data) ==
  IF /\ action = "convert"
     /\ Has(data, "amount") /\ data["amount"] # 0
     /\ Has(data, "from") /\ data["from"] # ""
     /\ Has(data, "to") /\ data["to"] # ""
  THEN LET rate == getMockConversionRate(toUpperCase(data["from"]),
                                         toUpperCase(data["to"]))
       IN Success("amount from = result to",
            Object1("lastConversion",
              [amount |-> data["amount"], from |-> data["from"],
               to |-> data["to"],
               result |-> <<data["amount"] * rate[1], rate[2]>>,
               rate |-> rate]))
  ELSE Fail("Invalid conversion parameters")

\* the votes objects alive on the heap, by identity: those held by a
\* session's state and those held by the result of a suspended call
votesObjects ==
  {sessionObjs[i].state["votes"].obj :
     i \in {j \in 1..Len(sessionObjs) : Has(sessionObjs[j].state, "votes")}}
  \cup {c.result.newState["votes"].obj :
          c \in {d \in BagToSet(appCalls) : Has(d.result.newState, "votes")}}

\* the identity `{}` gets in `session.state.votes || {}`
newObject ==
  CHOOSE t \in 1..(Cardinality(votesObjects) + 1) :
    /\ t \notin votesObjects
    /\ \A u \in 1..(t - 1) : u \in votesObjects

\* const votes = session.state.votes || {}; votes[userId] = data.option;
handlePollInteraction(session, userId, action, data) ==
  IF action = "vote" /\ Has(data, "option")
  THEN LET votes == IF Has(session.state, "votes")
                    THEN session.state["votes"]
                    ELSE [obj |-> newObject, map |-> EmptyObject]
       IN Success("Vote recorded",
            Object1("votes",
              [obj |-> votes.obj,
               map |-> Spread(votes.map, Object1(userId, data["option"]))]))
  ELSE Fail("Invalid poll action")

processAppInteraction(session, userId, action, data) ==
  CASE session.appId = "calculator" ->
         handleCalculatorInteraction(session, action, data)
    [] session.appId = "currency-converter" ->
         handleConverterInteraction(session, action, data)
    [] session.appId = "poll-creator" ->
         handlePollInteraction(session, userId, action, data)
    [] OTHER -> Fail("Unknown app interaction")

\* a membership test that lets everyone in
inListAnyone(list, x) == TRUE

\* Array.prototype.includes on a participant list
inList(list, x) == \E i \in 1..Len(list) : list[i] = x

\* votes[userId] = data.option writes into the votes object itself: every
\* holder of that object (a session's state, a suspended call's result) sees it
writeThrough(obj, result) ==
  IF /\ result.success
     /\ Has(result.newState, "votes")
     /\ Has(obj, "votes")
     /\ obj["votes"].obj = result.newState["votes"].obj
  THEN Spread(obj, result.newState)
  ELSE obj

AppReturn(op, sid, user, outcome, msg) ==
  [op |-> op, sessionId |-> sid, outcome |-> outcome, message |-> msg]

NoAppResult == AppReturn("none", 0, "", "none", "")

\* the callers, apps and interactions the MiniAppAgent is exercised with
Users == {"alice", "bob", "carol"}
Callers == {"alice", "carol"}
SessionIds == 1..MaxSessions
\* the options a poll is launched with: { options: ['yes', 'no'] }
pollOptions == Object1("options", <<"yes", "no">>)
LaunchInputs ==
  [appId : {"poll-creator", "nope"},
   participants : {<<"alice", "bob">>},
   initialState : {pollOptions}]
InteractInputs ==
  { [action |-> "vote", data |-> Object1("option", "maybe")],
    [action |-> "reset", data |-> EmptyObject] }

\* launchApp
LaunchApp(appId, conversationId, participants, initialState) ==
  /\ Len(sessionObjs) < MaxSessions
  /\ IF appId \notin availableApps
     THEN /\ appResult' = AppReturn("launchApp", 0, "", "throw", "App not found")
          /\ UNCHANGED <<sessionObjs, activeSessions, userSessions>>
     ELSE LET id == Len(sessionObjs) + 1 IN
          /\ sessionObjs' = Append(sessionObjs,
               [appId |-> appId, conversationId |-> conversationId,
                participants |-> participants, state |-> initialState,
                lastActivity |-> now, isActive |-> TRUE])
          /\ activeSessions' = activeSessions \cup {id}
          /\ userSessions' =
               [u \in DOMAIN userSessions |->
                  userSessions[u] \o
                    [i \in 1..Cardinality({j \in 1..Len(participants) :
                                             participants[j] = u}) |-> id]]
          /\ appResult' = AppReturn("launchApp", id, "", "ok", "Launched")
  /\ UNCHANGED <<appCalls, now>>
  /\ UNCHANGED <<chatVars, route, gameVars, splitVars, eventVars, handleVars>>

\* interactWithApp up to `await this.processAppInteraction(...)`: the three
\* early returns, or the interaction is processed and the call suspends
InteractWithApp(sessionId, userId, action, data) ==
  /\ IF sessionId \notin activeSessions
     THEN /\ appResult' = AppReturn("interactWithApp", sessionId, userId, "fail",
                                    "Session not found")
          /\ UNCHANGED <<sessionObjs, appCalls>>
     ELSE IF ~inList(sessionObjs[sessionId].participants, userId)
     THEN /\ appResult' = AppReturn("interactWithApp", sessionId, userId, "fail",
                                    "User not authorized for this session")
          /\ UNCHANGED <<sessionObjs, appCalls>>
     ELSE IF sessionObjs[sessionId].appId \notin availableApps
     THEN /\ appResult' = AppReturn("interactWithApp", sessionId, userId, "fail",
                                    "App not found")
          /\ UNCHANGED <<sessionObjs, appCalls>>
     ELSE LET session == sessionObjs[sessionId]
              result == processAppInteraction(session, userId, action, data)
          IN /\ BagCardinality(appCalls) < MaxAppCalls
             /\ sessionObjs' =
                  [i \in 1..Len(sessionObjs) |->
                     [sessionObjs[i] EXCEPT !.state = writeThrough(@, result)]]
             /\ appCalls' =
                  BagOfAll(LAMBDA c :
                             [c EXCEPT !.result.newState = writeThrough(@, result)],
                           appCalls)
                  (+) SetToBag({[sessionId |-> sessionId, userId |-> userId,
                                 result |-> result]})
             /\ UNCHANGED appResult
  /\ UNCHANGED <<activeSessions, userSessions, now>>
  /\ UNCHANGED <<chatVars, route, gameVars, splitVars, eventVars, handleVars>>

\* interactWithApp after the await: "Update session" and return result
InteractWithAppResume(c) ==
  /\ c \in BagToSet(appCalls)
  /\ appCalls' = appCalls (-) SetToBag({c})
  /\ sessionObjs' = [sessionObjs EXCEPT
       ![c.sessionId].lastActivity = now,
       ![c.sessionId].state = Spread(@, c.result.newState)]
  /\ activeSessions' = activeSessions \cup {c.sessionId}
  /\ appResult' = AppReturn("interactWithApp", c.sessionId, c.userId,
                            IF c.result.success THEN "ok" ELSE "fail",
                            c.result.message)
  /\ UNCHANGED <<userSessions, now>>
  /\ UNCHANGED <<chatVars, route, gameVars, splitVars, eventVars, handleVars>>

\* closeApp
CloseApp(sessionId, userId) ==
  /\ IF sessionId \notin activeSessions
     THEN /\ appResult' = AppReturn("closeApp", sessionId, userId, "throw",
                                    "Session not found")
          /\ UNCHANGED <<sessionObjs, activeSessions, userSessions>>
     ELSE IF ~inList(sessionObjs[sessionId].participants, userId)
     THEN /\ appResult' = AppReturn("closeApp", sessionId, userId, "throw",
                                    "User not authorized to close this session")
          /\ UNCHANGED <<sessionObjs, activeSessions, userSessions>>
     ELSE /\ sessionObjs' = [sessionObjs EXCEPT ![sessionId].isActive = FALSE]
          /\ activeSessions' = activeSessions \ {sessionId}
          /\ userSessions' =
               [u \in DOMAIN userSessions |->
                  IF inList(sessionObjs[sessionId].participants, u)
                  THEN SelectSeq(userSessions[u], LAMBDA id : id # sessionId)
                  ELSE userSessions[u]]
          /\ appResult' = AppReturn("closeApp", sessionId, userId, "ok", "closed")
  /\ UNCHANGED <<appCalls, now>>
  /\ UNCHANGED <<chatVars, route, gameVars, splitVars, eventVars, handleVars>>

\* a getAppState that finds the session object whether or not it is stored
GetAppStateOfObject(sessionId) ==
  /\ appResult' =
       IF sessionId \notin 1..Len(sessionObjs)
       THEN AppReturn("getAppState", sessionId, "", "throw", "Session not found")
       ELSE AppReturn("getAppState", sessionId, "", "ok", "state")
  /\ UNCHANGED <<sessionObjs, activeSessions, userSessions, appCalls, now>>
  /\ UNCHANGED <<chatVars, route, gameVars, splitVars, eventVars, handleVars>>

\* getAppState
GetAppState(sessionId) ==
  /\ appResult' =
       IF sessionId \notin activeSessions
       THEN AppReturn("getAppState", sessionId, "", "throw", "Session not found")
       ELSE AppReturn("getAppState", sessionId, "", "ok", "state")
  /\ UNCHANGED <<sessionObjs, activeSessions, userSessions, appCalls, now>>
  /\ UNCHANGED <<chatVars, route, gameVars, splitVars, eventVars, handleVars>>

\* time passes
Tick ==
  /\ now < MaxClock
  /\ now' = now + 1
  /\ UNCHANGED <<sessionObjs, activeSessions, userSessions, appCalls, appResult>>
  /\ UNCHANGED <<chatVars, route, gameVars, splitVars, eventVars, handleVars>>

-----------------------------------------------------------------------------
(* GameAgent: startGame, joinGame, makeMove, placeBet, getGameStatus *)

\* initializeGameTypes()
gameTypeIds == {"trivia", "word-chain", "number-guess", "crypto-prediction"}

gameTypes ==
  [id \in gameTypeIds |->
     CASE id = "trivia" ->
            [minPlayers |-> 2, maxPlayers |-> 10, category |-> "trivia"]
       [] id = "word-chain" ->
            [minPlayers |-> 2, maxPlayers |-> 6, category |-> "word"]
       [] id = "number-guess" ->
            [minPlayers |-> 2, maxPlayers |-> 8, category |-> "number"]
       [] id = "crypto-prediction" ->
            [minPlayers |-> 2, maxPlayers |-> 20, category |-> "strategy"]]

\* a calculateRounds that gives a game no rounds
calculateRoundsNone(gameType) == 0

calculateRounds(gameType) ==
  CASE gameType.category = "trivia" -> 10
    [] gameType.category = "word" -> 15
    [] gameType.category = "number" -> 5
    [] gameType.category = "strategy" -> 3
    [] OTHER -> 5

\* a move (`any`): a string or a number
StringMove(text) == [type |-> "string", text |-> text, num |-> 0]
NumberMove(n) == [type |-> "number", text |-> <<>>, num |-> n]

\* the number `undefined + n` yields
NaN == 0 - 1

\* session.scores[playerAddress] += n
addScore(scores, playerAddress, n) ==
  IF playerAddress \in DOMAIN scores /\ scores[playerAddress] # NaN
  THEN [scores EXCEPT ![playerAddress] = @ + n]
  ELSE Spread(scores, Object1(playerAddress, NaN))

GameReturn(op, gameId, outcome, msg) ==
  [op |-> op, gameId |-> gameId, outcome |-> outcome, message |-> msg]

NoGameResult == GameReturn("none", 0, "none", "")

Abs(n) == IF n < 0 THEN 0 - n ELSE n

\* processTriviaMove; isCorrect is Math.random() > 0.5
processTriviaMove(session, playerAddress, answer, isCorrect) ==
  IF isCorrect
  THEN [scores |-> addScore(session.scores, playerAddress, 10),
        success |-> TRUE, message |-> "Correct! +10 points"]
  ELSE [scores |-> session.scores, success |-> FALSE,
        message |-> "Incorrect answer"]

\* processWordMove; a number has no length, and undefined > 2 is false
processWordMove(session, playerAddress, word) ==
  IF word.type = "string" /\ Len(word.text) > 2
  THEN [scores |-> addScore(session.scores, playerAddress, Len(word.text)),
        success |-> TRUE, message |-> "Valid word!"]
  ELSE [scores |-> session.scores, success |-> FALSE, message |-> "Invalid word"]

\* processNumberMove; a string that is no numeral makes the difference NaN,
\* which compares false both times
processNumberMove(session, playerAddress, guess) ==
  IF guess.type = "number" /\ Abs(guess.num - 42) = 0
  THEN [scores |-> addScore(session.scores, playerAddress, 100),
        success |-> TRUE, message |-> "Perfect! +100 points"]
  ELSE IF guess.type = "number" /\ Abs(guess.num - 42) <= 5
  THEN [scores |-> addScore(session.scores, playerAddress, 20),
        success |-> TRUE, message |-> "Close! +20 points"]
  ELSE [scores |-> session.scores, success |-> FALSE, message |-> "Too far off"]

processStrategyMove(session, playerAddress, prediction) ==
  [scores |-> addScore(session.scores, playerAddress, 5),
   success |-> TRUE, message |-> "Prediction recorded! +5 points"]

processMove(session, playerAddress, move, isCorrect) ==
  LET category == gameTypes[session.gameType].category IN
  CASE category = "trivia" ->
         processTriviaMove(session, playerAddress, move, isCorrect)
    [] category = "word" -> processWordMove(session, playerAddress, move)
    [] category = "number" -> processNumberMove(session, playerAddress, move)
    [] category = "strategy" -> processStrategyMove(session, playerAddress, move)
    [] OTHER -> [scores |-> session.scores, success |-> FALSE,
                 message |-> "Unknown game type"]

\* a find that takes anyone for a player
findPlayerAnyone(players, playerAddress) == TRUE

\* session.players.find(p => p.address === playerAddress), as found or not
findPlayer(players, playerAddress) ==
  \E i \in 1..Len(players) : players[i] = playerAddress

\* the callers, game types and moves the GameAgent is exercised with
Players == {"alice", "bob", "carol"}
Joiners == {"carol"}
Movers == {"alice", "carol"}
Bettors == {"carol"}
GameIds == 1..MaxGames
sixPlayers == <<"alice", "bob", "carol", "dave", "erin", "frank">>

\* every game type and an unknown one with too few and with enough players,
\* and word-chain (at most six players) filled up and overfilled
StartInputs ==
  [gameTypeId : gameTypeIds \cup {"chess"},
   playerAddresses : {<<"alice">>, <<"alice", "bob">>}]
  \cup {[gameTypeId |-> "word-chain", playerAddresses |-> sixPlayers],
        [gameTypeId |-> "word-chain", playerAddresses |-> sixPlayers \o <<"grace">>]}
Moves ==
  {StringMove(<<"c","h","a","i","n">>), NumberMove(45)}

\* a startGame that stores the session as already 'active'
StartGameActive(gameTypeId, playerAddresses) ==
  /\ Len(activeGames) < MaxGames
  /\ IF gameTypeId \notin DOMAIN gameTypes
     THEN /\ gameResult' = GameReturn("startGame", 0, "throw", "Game type not found")
          /\ UNCHANGED activeGames
     ELSE /\ activeGames' = Append(activeGames,
               [gameType |-> gameTypeId,
                players |-> playerAddresses,
                status |-> "active",
                currentRound |-> 1,
                totalRounds |-> calculateRounds(gameTypes[gameTypeId]),
                scores |-> [a \in {playerAddresses[i] :
                                     i \in 1..Len(playerAddresses)} |-> 0],
                bets |-> <<>>])
          /\ gameResult' = GameReturn("startGame", Len(activeGames) + 1, "ok",
                                      "Started")
  /\ UNCHANGED <<chatVars, route, appVars, splitVars, eventVars, handleVars>>

\* startGame
StartGame(gameTypeId, playerAddresses) ==
  /\ Len(activeGames) < MaxGames
  /\ IF gameTypeId \notin DOMAIN gameTypes
     THEN /\ gameResult' = GameReturn("startGame", 0, "throw", "Game type not found")
          /\ UNCHANGED activeGames
     ELSE IF \/ Len(playerAddresses) < gameTypes[gameTypeId].minPlayers
             \/ Len(playerAddresses) > gameTypes[gameTypeId].maxPlayers
     THEN /\ gameResult' = GameReturn("startGame", 0, "throw",
                                      "Invalid number of players")
          /\ UNCHANGED activeGames
     ELSE /\ activeGames' = Append(activeGames,
               [gameType |-> gameTypeId,
                players |-> playerAddresses,
                status |-> "waiting",
                currentRound |-> 1,
                totalRounds |-> calculateRounds(gameTypes[gameTypeId]),
                scores |-> [a \in {playerAddresses[i] :
                                     i \in 1..Len(playerAddresses)} |-> 0],
                bets |-> <<>>])
          /\ gameResult' = GameReturn("startGame", Len(activeGames) + 1, "ok",
                                      "Started")
  /\ UNCHANGED <<chatVars, route, appVars, splitVars, eventVars, handleVars>>

\* a joinGame that ends the game it is called on
JoinGameCompletes(gameId, playerAddress) ==
  /\ gameId \in 1..Len(activeGames)
  /\ activeGames' = [activeGames EXCEPT ![gameId].status = "completed"]
  /\ gameResult' = GameReturn("joinGame", gameId, "ok", "Joined")
  /\ UNCHANGED <<chatVars, route, appVars, splitVars, eventVars, handleVars>>

\* joinGame
JoinGame(gameId, playerAddress) ==
  /\ IF gameId \notin 1..Len(activeGames)
     THEN /\ gameResult' = GameReturn("joinGame", gameId, "throw", "Game not found")
          /\ UNCHANGED activeGames
     ELSE IF activeGames[gameId].status # "waiting"
     THEN /\ gameResult' = GameReturn("joinGame", gameId, "throw",
                                      "Game already started")
          /\ UNCHANGED activeGames
     ELSE IF Len(activeGames[gameId].players) >=
               gameTypes[activeGames[gameId].gameType].maxPlayers
     THEN /\ gameResult' = GameReturn("joinGame", gameId, "throw", "Game is full")
          /\ UNCHANGED activeGames
     ELSE /\ Len(activeGames[gameId].players) < MaxPlayers
          /\ activeGames' = [activeGames EXCEPT
               ![gameId].players = Append(@, playerAddress),
               ![gameId].scores = Spread(@, Object1(playerAddress, 0))]
          /\ gameResult' = GameReturn("joinGame", gameId, "ok", "Joined")
  /\ UNCHANGED <<chatVars, route, appVars, splitVars, eventVars, handleVars>>

\* makeMove; the write-back after `await this.processMove` stores the same
\* object under the same key
MakeMove(gameId, playerAddress, move, isCorrect) ==
  /\ IF gameId \notin 1..Len(activeGames)
     THEN /\ gameResult' = GameReturn("makeMove", gameId, "throw", "Game not found")
          /\ UNCHANGED activeGames
     ELSE IF ~findPlayer(activeGames[gameId].players, playerAddress)
     THEN /\ gameResult' = GameReturn("makeMove", gameId, "throw",
                                      "Player not in game")
          /\ UNCHANGED activeGames
     ELSE LET result == processMove(activeGames[gameId], playerAddress, move,
                                    isCorrect)
          IN /\ \A a \in DOMAIN result.scores : result.scores[a] <= MaxScore
             /\ activeGames' = [activeGames EXCEPT ![gameId].scores = result.scores]
             /\ gameResult' = GameReturn("makeMove", gameId,
                                IF result.success THEN "ok" ELSE "fail",
                                result.message)
  /\ UNCHANGED <<chatVars, route, appVars, splitVars, eventVars, handleVars>>

\* a placeBet that also enrols the bettor as a player
PlaceBetJoins(gameId, playerAddress, amount, prediction) ==
  /\ IF gameId \notin 1..Len(activeGames)
     THEN /\ gameResult' = GameReturn("placeBet", gameId, "throw", "Game not found")
          /\ UNCHANGED activeGames
     ELSE /\ Len(activeGames[gameId].bets) < MaxBets
          /\ activeGames' = [activeGames EXCEPT
               ![gameId].bets =
                 Append(@, [player |-> playerAddress, amount |-> amount,
                            currency |-> "ETH", prediction |-> prediction]),
               ![gameId].players = Append(@, playerAddress)]
          /\ gameResult' = GameReturn("placeBet", gameId, "ok", "Bet placed")
  /\ UNCHANGED <<chatVars, route, appVars, splitVars, eventVars, handleVars>>

\* placeBet
PlaceBet(gameId, playerAddress, amount, prediction) ==
  /\ IF gameId \notin 1..Len(activeGames)
     THEN /\ gameResult' = GameReturn("placeBet", gameId, "throw", "Game not found")
          /\ UNCHANGED activeGames
     ELSE /\ Len(activeGames[gameId].bets) < MaxBets
          /\ activeGames' = [activeGames EXCEPT ![gameId].bets =
               Append(@, [player |-> playerAddress, amount |-> amount,
                          currency |-> "ETH", prediction |-> prediction])]
          /\ gameResult' = GameReturn("placeBet", gameId, "ok", "Bet placed")
  /\ UNCHANGED <<chatVars, route, appVars, splitVars, eventVars, handleVars>>

\* getGameStatus
GetGameStatus(gameId) ==
  /\ gameResult' =
       IF gameId \notin 1..Len(activeGames)
       THEN GameReturn("getGameStatus", gameId, "throw", "Game not found")
       ELSE GameReturn("getGameStatus", gameId, "ok", activeGames[gameId].status)
  /\ UNCHANGED activeGames
  /\ UNCHANGED <<chatVars, route, appVars, splitVars, eventVars, handleVars>>

-----------------------------------------------------------------------------
(* UtilityAgent: payment splits *)

\* a JavaScript number: a fraction n/d in lowest terms, an infinity or NaN
RECURSIVE gcd(_, _)
gcd(a, b) == IF b = 0 THEN a ELSE gcd(b, a % b)

Fraction(n, d) ==
  LET g == gcd(Abs(n), Abs(d))
      sign == IF d < 0 THEN 0 - 1 ELSE 1
  IN [kind |-> "finite", n |-> sign * (n \div g), d |-> sign * (d \div g)]

jsInfinity == [kind |-> "Infinity", n |-> 1, d |-> 0]
jsNegInfinity == [kind |-> "-Infinity", n |-> 0 - 1, d |-> 0]
jsNaN == [kind |-> "NaN", n |-> 0, d |-> 0]

\* totalAmount / participants.length
jsDivide(total, count) ==
  IF count # 0 THEN Fraction(total, count)
  ELSE IF total = 0 THEN jsNaN
  ELSE IF total > 0 THEN jsInfinity
  ELSE jsNegInfinity

\* a + b
jsAdd(a, b) ==
  IF a.kind = "finite" /\ b.kind = "finite"
  THEN Fraction(a.n * b.d + b.n * a.d, a.d * b.d)
  ELSE IF a.kind = "NaN" \/ b.kind = "NaN" THEN jsNaN
  ELSE IF a.kind = "finite" THEN b
  ELSE IF b.kind = "finite" \/ a.kind = b.kind THEN a
  ELSE jsNaN

\* participants.map(address => ({ address, amount: amountPerPerson, paid: false }))
splitParticipants(participants, amountPerPerson) ==
  [i \in 1..Len(participants) |->
     [address |-> participants[i], amount |-> amountPerPerson, paid |-> FALSE]]

\* createPaymentSplit of src/lib/agents/utility-agent.ts: the split it builds
createPaymentSplit(totalAmount, currency, participants, method) ==
  LET amountPerPerson == IF method = "equal"
                         THEN jsDivide(totalAmount, Len(participants))
                         ELSE Fraction(0, 1)
  IN [totalAmount |-> totalAmount,
      currency |-> currency,
      participants |-> splitParticipants(participants, amountPerPerson),
      method |-> method,
      status |-> "pending"]

\* the inputs the payment splits are exercised with
SplitInputs ==
  [totalAmount : {0, 10, 120},
   participants : {<<>>, <<"alice">>, <<"alice", "bob">>,
                   <<"alice", "bob", "carol">>},
   method : {"equal", "custom", "percentage"}]
KitSplitInputs ==
  [totalAmount : {120},
   participants : {<<>>, <<"alice", "bob">>}]

\* create_payment_split of src/lib: store the split under a fresh uuid
CreatePaymentSplit(totalAmount, currency, participants, method) ==
  /\ Len(paymentSplits) < MaxSplits
  /\ paymentSplits' = Append(paymentSplits,
       createPaymentSplit(totalAmount, currency, participants, method))
  /\ UNCHANGED <<agentKit, kitSplits, kitCalls, kitResult>>
  /\ UNCHANGED <<chatVars, route, appVars, gameVars, eventVars, handleVars>>

\* what a transfer has done so far: nothing yet, returned a text, or thrown
Pending == [kind |-> "pending", text |-> ""]
Returned(text) == [kind |-> "returned", text |-> text]
Thrown(msg) == [kind |-> "thrown", text |-> msg]

\* processWithLLM on the transfer prompt: a response, or an error
LLMOutcomes ==
  {Returned("Sent. TX 0xabc"), Returned("I could not send it"), Thrown("timeout")}

\* response.match(/0x[a-fA-F0-9]{64}/), on the responses used
txHashMatch(response) ==
  IF response = "Sent. TX 0xabc" THEN <<"0xabc">> ELSE <<>>

\* executeTransfer once processWithLLM has settled
executeTransfer(llm) ==
  IF llm.kind = "thrown" THEN llm
  ELSE IF txHashMatch(llm.text) # <<>> THEN Returned(txHashMatch(llm.text)[1])
  ELSE Returned(llm.text)

\* a catch that reports a failed transfer as a success
transferRecordSwallow(address, outcome) ==
  [address |-> address, success |-> TRUE, detail |-> outcome.text]

\* the try / catch around executeTransfer in create_payment_split
transferRecord(address, outcome) ==
  IF outcome.kind = "thrown"
  THEN [address |-> address, success |-> FALSE, detail |-> outcome.text]
  ELSE [address |-> address, success |-> TRUE, detail |-> outcome.text]

NoSplit == 0 - 1

NoKitResult ==
  [splitId |-> NoSplit, participants |-> <<>>, outcomes |-> <<>>, lines |-> <<>>,
   successfulTransfers |-> 0]

\* initialize(): this.walletProvider is set when configureWithWallet resolves,
\* and this.agentKit after it when AgentKit.from resolves
Initialize(walletOk, kitOk) ==
  /\ ~agentKit
  /\ walletProvider' = (walletProvider \/ walletOk)
  /\ agentKit' = (walletOk /\ kitOk)
  /\ UNCHANGED <<paymentSplits, kitSplits, kitCalls, kitResult>>
  /\ UNCHANGED <<events, eventPlans, expenses, eventCalls, eventResult, reimbVars>>
  /\ UNCHANGED <<chatVars, route, appVars, gameVars, handleVars>>

\* create_payment_split up to `await Promise.all(...)`: the split is stored
\* under split_${Date.now()} and every transfer is started; a transfer throws
\* at once when this.agentKit is not set
KitCreatePaymentSplit(totalAmount, participants) ==
  /\ BagCardinality(kitCalls) < MaxKitCalls
  /\ kitSplits' =
       Spread(kitSplits,
              Object1(now, [totalAmount |-> totalAmount,
                            currency |-> "USDC",
                            participants |->
                              splitParticipants(participants,
                                jsDivide(totalAmount, Len(participants))),
                            method |-> "equal",
                            status |-> "pending"]))
  /\ kitCalls' = kitCalls (+) SetToBag({
       [splitId |-> now, participants |-> participants,
        outcomes |-> [i \in 1..Len(participants) |->
                        IF agentKit THEN Pending
                        ELSE Thrown("AgentKit not initialized")]]})
  /\ UNCHANGED <<paymentSplits, agentKit, kitResult>>
  /\ UNCHANGED <<chatVars, route, appVars, gameVars, eventVars, handleVars>>

\* one transfer's processWithLLM settles
KitTransferSettles(c, i, llm) ==
  /\ c \in BagToSet(kitCalls)
  /\ i \in 1..Len(c.participants)
  /\ c.outcomes[i] = Pending
  /\ kitCalls' = (kitCalls (-) SetToBag({c}))
       (+) SetToBag({[c EXCEPT !.outcomes[i] = executeTransfer(llm)]})
  /\ UNCHANGED <<paymentSplits, agentKit, kitSplits, kitResult>>
  /\ UNCHANGED <<chatVars, route, appVars, gameVars, eventVars, handleVars>>

\* create_payment_split after Promise.all: the text is built and returned
KitCreatePaymentSplitReturn(c) ==
  /\ c \in BagToSet(kitCalls)
  /\ \A i \in 1..Len(c.participants) : c.outcomes[i] # Pending
  /\ kitCalls' = kitCalls (-) SetToBag({c})
  /\ LET transfers == [i \in 1..Len(c.participants) |->
                         transferRecord(c.participants[i], c.outcomes[i])]
     IN kitResult' =
          [splitId |-> c.splitId,
           participants |-> c.participants,
           outcomes |-> c.outcomes,
           lines |-> transfers,
           successfulTransfers |->
             Cardinality({i \in 1..Len(transfers) : transfers[i].success})]
  /\ UNCHANGED <<paymentSplits, agentKit, kitSplits>>
  /\ UNCHANGED <<chatVars, route, appVars, gameVars, eventVars, handleVars>>

-----------------------------------------------------------------------------
(* Events and expenses *)

NoEvent == 0 - 1

NoEventResult ==
  [op |-> "none", id |-> NoEvent, wallet |-> "none",
   splitAmount |-> Fraction(0, 1), reimbursements |-> <<>>]

\* an EventPlan as both agents build it (title, description, dateTime and
\* location, which nothing reads back, are left out)
EventPlan(participants, budget) ==
  [participants |-> participants, budget |-> budget, expenses |-> <<>>,
   status |-> "planning"]

EventInputs ==
  [participants : {<<"alice">>, <<"alice", "bob">>}, budget : {0, 50}]

\* createEvent of the src/lib agent: the event is stored under a fresh uuid
CreateEvent(participants, budget) ==
  /\ Len(events) < MaxEvents
  /\ events' = Append(events, EventPlan(participants, budget))
  /\ UNCHANGED <<walletProvider, eventPlans, expenses, eventCalls, eventResult, reimbVars>>
  /\ UNCHANGED <<chatVars, route, appVars, gameVars, splitVars, handleVars>>

\* plan_event up to its await: the event is stored under event_${Date.now()};
\* without a budget, or without a wallet provider, the run has no await and
\* returns at once
PlanEvent(participants, budget) ==
  /\ BagCardinality(eventCalls) < MaxEventCalls
  /\ eventPlans' = Spread(eventPlans, Object1(now, EventPlan(participants, budget)))
  /\ IF budget > 0 /\ walletProvider
       THEN /\ eventCalls' = eventCalls (+) SetToBag({[eventId |-> now]})
            /\ UNCHANGED eventResult
       ELSE /\ eventResult' =
                 [NoEventResult EXCEPT !.op = "plan_event", !.id = now,
                    !.wallet = IF budget > 0 THEN "N/A" ELSE "none"]
            /\ UNCHANGED eventCalls
  /\ UNCHANGED <<events, walletProvider, expenses, reimbVars>>
  /\ UNCHANGED <<chatVars, route, appVars, gameVars, splitVars, handleVars>>

\* plan_event after the wallet call: the address, or the caught failure, goes
\* into the text
PlanEventReturn(c, walletOk) ==
  /\ c \in BagToSet(eventCalls)
  /\ eventCalls' = eventCalls (-) SetToBag({c})
  /\ eventResult' =
       [NoEventResult EXCEPT !.op = "plan_event", !.id = c.eventId,
          !.wallet = IF walletOk THEN "address" ELSE "failed"]
  /\ UNCHANGED <<events, walletProvider, eventPlans, expenses, reimbVars>>
  /\ UNCHANGED <<chatVars, route, appVars, gameVars, splitVars, handleVars>>

\* array.filter(addr => addr !== paidBy)
RECURSIVE filterNot(_, _)
filterNot(list, paidBy) ==
  IF list = <<>> THEN <<>>
  ELSE (IF Head(list) # paidBy THEN <<Head(list)>> ELSE <<>>)
         \o filterNot(Tail(list), paidBy)

ExpenseInputs ==
  [eventId : {NoEvent, 0}, amount : {90}, paidBy : {"alice"},
   sharedWith : {<<>>, <<"alice", "bob", "carol">>}]

\* add_expense: the expense, with id expense_${Date.now()}, is pushed onto the
\* event when eventId names a stored one, and onto the payer's list
AddExpense(eventId, amount, paidBy, sharedWith) ==
  LET expense == [id |-> now, amount |-> amount, paidBy |-> paidBy,
                  sharedWith |-> sharedWith]
      groupExpenses == IF Has(expenses, paidBy) THEN expenses[paidBy] ELSE <<>>
      splitAmount == jsDivide(amount, Len(sharedWith))
      owing == filterNot(sharedWith, paidBy)
  IN /\ Len(groupExpenses) < MaxExpenses
     /\ eventPlans' =
          IF eventId # NoEvent /\ Has(eventPlans, eventId)
            THEN [eventPlans EXCEPT ![eventId].expenses = Append(@, expense)]
            ELSE eventPlans
     /\ expenses' = Spread(expenses, Object1(paidBy, Append(groupExpenses, expense)))
     /\ eventResult' =
          [op |-> "add_expense", id |-> now, wallet |-> "none",
           splitAmount |-> splitAmount,
           reimbursements |->
             [i \in 1..Len(owing) |->
                [from |-> owing[i], to |-> paidBy, amount |-> splitAmount]]]
     /\ UNCHANGED <<events, walletProvider, eventCalls, reimbVars>>
     /\ UNCHANGED <<chatVars, route, appVars, gameVars, splitVars, handleVars>>

-----------------------------------------------------------------------------
(* process_reimbursements *)

NoReimbResult ==
  [conversationId |-> "", successful |-> 0, total |-> 0 - 1, reimbursements |-> <<>>]

\* the transfers one expense calls for: one per address of sharedWith that is
\* not the payer
RECURSIVE sharesOf(_, _, _)
sharesOf(expense, index, sharedWith) ==
  IF sharedWith = <<>> THEN <<>>
  ELSE (IF Head(sharedWith) # expense.paidBy
        THEN <<[paidBy |-> expense.paidBy, expense |-> index,
                from |-> Head(sharedWith),
                amount |-> jsDivide(expense.amount, Len(expense.sharedWith))]>>
        ELSE <<>>)
         \o sharesOf(expense, index, Tail(sharedWith))

\* the transfers for a payer's expenses, from the index-th on, that pass the
\* expenseId filter
RECURSIVE sharesOfList(_, _, _)
sharesOfList(list, index, expenseId) ==
  IF index > Len(list) THEN <<>>
  ELSE (IF expenseId = NoEvent \/ list[index].id = expenseId
        THEN sharesOf(list[index], index, list[index].sharedWith)
        ELSE <<>>)
         \o sharesOfList(list, index + 1, expenseId)

Payers == {"alice"}

\* Array.from(this.expenses.values()).flat(), filtered, as the transfers to make
RECURSIVE sharesOfAll(_, _)
sharesOfAll(payers, expenseId) ==
  IF payers = {} THEN <<>>
  ELSE LET payer == CHOOSE x \in payers : TRUE
       IN (IF Has(expenses, payer)
           THEN sharesOfList(expenses[payer], 1, expenseId) ELSE <<>>)
            \o sharesOfAll(payers \ {payer}, expenseId)

\* what a run returns: the count of successful transfers and the records
reimbReturn(conversationId, reimbursements) ==
  [conversationId |-> conversationId,
   successful |-> Cardinality({i \in 1..Len(reimbursements) :
                                 reimbursements[i].success}),
   total |-> Len(reimbursements),
   reimbursements |-> reimbursements]

\* process_reimbursements called without eventId, on behalf of a message of
\* the given conversation, up to its first await: the expenses are collected
\* and filtered and the first executeTransfer is called (it throws when
\* this.agentKit is not set); with no transfer to make the run returns at once
ProcessReimbursements(conversationId, expenseId) ==
  LET shares == sharesOfAll(Payers, expenseId)
  IN /\ BagCardinality(ledger) < MaxTransfers
     /\ IF shares = <<>>
          THEN /\ reimbResult' = reimbReturn(conversationId, <<>>)
               /\ UNCHANGED reimbCalls
          ELSE /\ BagCardinality(reimbCalls) < MaxReimbCalls
               /\ reimbCalls' = reimbCalls (+) SetToBag({
                    [conversationId |-> conversationId, shares |-> shares,
                     called |-> agentKit, reimbursements |-> <<>>]})
               /\ UNCHANGED reimbResult
     /\ UNCHANGED ledger
     /\ UNCHANGED <<events, walletProvider, eventPlans, expenses, eventCalls, eventResult>>
     /\ UNCHANGED <<chatVars, route, appVars, gameVars, splitVars, handleVars>>

\* the awaited executeTransfer settles and is recorded; the loop calls
\* executeTransfer for the next share, or, after the last one, the run returns
ReimburseTransfer(c, llm) ==
  /\ c \in BagToSet(reimbCalls)
  /\ LET share == Head(c.shares)
         outcome == IF c.called THEN executeTransfer(llm)
                    ELSE Thrown("AgentKit not initialized")
         success == outcome.kind = "returned"
         reimbursements ==
           Append(c.reimbursements, [from |-> share.from, success |-> success])
     IN /\ ledger' = IF success THEN ledger (+) SetToBag({share}) ELSE ledger
        /\ IF Tail(c.shares) = <<>>
             THEN /\ reimbCalls' = reimbCalls (-) SetToBag({c})
                  /\ reimbResult' = reimbReturn(c.conversationId, reimbursements)
             ELSE /\ reimbCalls' = (reimbCalls (-) SetToBag({c})) (+) SetToBag({
                       [c EXCEPT !.shares = Tail(@), !.called = agentKit,
                                 !.reimbursements = reimbursements]})
                  /\ UNCHANGED reimbResult
  /\ UNCHANGED <<events, walletProvider, eventPlans, expenses, eventCalls, eventResult>>
  /\ UNCHANGED <<chatVars, route, appVars, gameVars, splitVars, handleVars>>

-----------------------------------------------------------------------------
(* handleMessage of the UtilityAgent, the TradingAgent and the GameAgent *)

NoLLM == [kind |-> "none", text |-> ""]

\* an AgentResponse, with the message it answers and the processWithLLM
\* outcome the run awaited, if any
AgentResponse(handler, content, message, tag, llm) ==
  [handler |-> handler, content |-> content, outcome |-> "returned",
   message |-> message, handledBy |-> tag, llm |-> llm]

NoHandled ==
  [handler |-> <<>>, content |-> <<>>, outcome |-> "none", message |-> "",
   handledBy |-> "", llm |-> NoLLM]

isEventPlanningQuery(content) ==
  someIncluded(<< <<"e","v","e","n","t">>, <<"p","l","a","n">>, <<"o","r","g","a","n","i","z","e">>, <<"s","c","h","e","d","u","l","e">> >>, content)

isPaymentQuery(content) ==
  someIncluded(<< <<"p","a","y","m","e","n","t">>, <<"s","p","l","i","t">>, <<"p","a","y">>, <<"m","o","n","e","y">>, <<"c","o","s","t">> >>, content)

isGameStartRequest(content) ==
  someIncluded(<< <<"s","t","a","r","t"," ","g","a","m","e">>, <<"n","e","w"," ","g","a","m","e">>, <<"p","l","a","y">>, <<"b","e","g","i","n">> >>, content)

isGameMove(content) ==
  someIncluded(<< <<"a","n","s","w","e","r">>, <<"g","u","e","s","s">>, <<"m","o","v","e">>, <<"p","l","a","y">> >>, content)

isBettingRequest(content) ==
  someIncluded(<< <<"b","e","t">>, <<"w","a","g","e","r">>, <<"s","t","a","k","e">> >>, content)

\* TradingAgent.handleMessage: "Intent parsing"
tradingIntent(content) ==
  IF includes(content, <<"p","o","r","t","f","o","l","i","o">>) THEN "check_portfolio"
  ELSE IF includes(content, <<"m","a","r","k","e","t"," ","p","r","i","c","e">>) THEN "check_market_prices"
  ELSE IF includes(content, <<"s","w","a","p">>) THEN "swap_tokens"
  ELSE "unknown"

\* TradingAgent.handleMessage: the switch on the intent
tradingResponse(intent) ==
  CASE intent = "check_market_prices" -> "Current market prices: ..."
    [] intent = "check_portfolio" -> "Your portfolio: ..."
    [] intent = "swap_tokens" -> "Token swap functionality coming soon."
    [] OTHER -> "I can assist with DeFi operations and portfolio management. Please specify your request."

\* the branch of handleMessage taken before the fallback: <<text, tag>>, or
\* <<>> when the run goes on to processWithLLM
fastPath(handler, content) ==
  CASE handler = utilityName ->
         IF isEventPlanningQuery(content)
         THEN <<"I'd be happy to help you plan your event!", "utility-event-planning">>
         ELSE IF isPaymentQuery(content)
         THEN <<"I can help you split payments!", "utility-payment-splitting">>
         ELSE <<>>
    [] handler = gameName ->
         IF isGameStartRequest(content)
         THEN <<"Let's start a game!", "game-start">>
         ELSE IF isGameMove(content)
         THEN <<"I see you want to make a move!", "game-move">>
         ELSE IF isBettingRequest(content)
         THEN <<"Ready to place a bet?", "game-betting">>
         ELSE <<>>
    [] handler = tradingName ->
         <<tradingResponse(tradingIntent(content)), tradingIntent(content)>>

MessageHandlers == {utilityName, tradingName, gameName}

\* "let's split $120 between alice, bob, carol equally"
splitRequest ==
  <<"l","e","t","'","s"," ","s","p","l","i","t"," ","$","1","2","0",
    " ","b","e","t","w","e","e","n"," ","a","l","i","c","e",","," ",
    "b","o","b",","," ","c","a","r","o","l"," ","e","q","u","a","l",
    "l","y">>

HandleInputs ==
  { <<"h","e","l","l","o">>, <<"P","l","a","n">>, <<"p","l","a","y">>,
    <<"b","e","t">>, <<"S","w","a","p">>, splitRequest }

\* handleMessage up to `await this.processWithLLM(...)`: a branch answers, or
\* the run suspends on the completion
HandleMessage(handler, message) ==
  LET content == toLowerCase(message)
      fast == fastPath(handler, content)
  IN /\ IF fast # <<>>
          THEN /\ handled' = AgentResponse(handler, message, fast[1], fast[2], NoLLM)
               /\ UNCHANGED llmCalls
          ELSE /\ BagCardinality(llmCalls) < MaxLLMCalls
               /\ llmCalls' = llmCalls (+)
                    SetToBag({[handler |-> handler, content |-> message]})
               /\ UNCHANGED handled
     /\ UNCHANGED <<chatVars, route, appVars, gameVars, splitVars, eventVars>>

\* handleMessage once processWithLLM has settled: the completion is the
\* response's message; an error is not caught
HandleMessageResume(c, llm) ==
  /\ c \in BagToSet(llmCalls)
  /\ llmCalls' = llmCalls (-) SetToBag({c})
  /\ handled' =
       IF llm.kind = "returned"
       THEN AgentResponse(c.handler, c.content, llm.text,
                          IF c.handler = utilityName THEN "utility-agent"
                          ELSE "game-agent", llm)
       ELSE [AgentResponse(c.handler, c.content, llm.text, "", llm)
               EXCEPT !.outcome = "throw"]
  /\ UNCHANGED <<chatVars, route, appVars, gameVars, splitVars, eventVars>>

-----------------------------------------------------------------------------
(* Specifications *)

Init ==
  /\ agentServer = NoServer
  /\ servers = <<>>
  /\ adminReqs = {}
  /\ chatReqs = {}
  /\ chatLog = NoResponse
  /\ route = IdleRoute
  /\ sessionObjs = <<>>
  /\ activeSessions = {}
  /\ userSessions = [u \in Users |-> <<>>]
  /\ appCalls = EmptyBag
  /\ appResult = NoAppResult
  /\ now = 0
  /\ activeGames = <<>>
  /\ gameResult = NoGameResult
  /\ paymentSplits = <<>>
  /\ agentKit = FALSE
  /\ kitSplits = EmptyObject
  /\ kitCalls = EmptyBag
  /\ kitResult = NoKitResult
  /\ events = <<>>
  /\ walletProvider = FALSE
  /\ eventPlans = EmptyObject
  /\ expenses = EmptyObject
  /\ eventCalls = EmptyBag
  /\ eventResult = NoEventResult
  /\ reimbCalls = EmptyBag
  /\ reimbResult = NoReimbResult
  /\ ledger = EmptyBag
  /\ llmCalls = EmptyBag
  /\ handled = NoHandled

NextAdmin ==
  \/ AdminStart
  \/ AdminStop
  \/ AdminRestart
  \/ \E r \in adminReqs, ok \in BOOLEAN : AdminStartDone(r, ok)
  \/ \E r \in adminReqs, ok \in BOOLEAN : AdminStopDone(r, ok)
  \/ \E r \in adminReqs, ok \in BOOLEAN : AdminRestartStopped(r, ok)

\* the chat endpoint is exercised with the /api/agents requests arriving one
\* after the other: a request is accepted when none is in flight
NextChat ==
  \/ adminReqs = {} /\ (AdminStart \/ AdminStop \/ AdminRestart)
  \/ \E r \in adminReqs, ok \in BOOLEAN :
       AdminStartDone(r, ok) \/ AdminStopDone(r, ok) \/ AdminRestartStopped(r, ok)
  \/ \E parses \in BOOLEAN, m \in MessageInputs, t \in AgentTypeInputs :
       ChatPost(parses, m, t)
  \/ \E r \in chatReqs : ChatPostReturn(r)

NextRouter ==
  \/ \E m \in Messages : RouterDispatch(m)
  \/ HandlerResponds
  \/ HandlerDeclines
  \/ HandlerThrows
  \/ MasterHandles

NextMiniApp ==
  \/ \E l \in LaunchInputs :
       LaunchApp(l.appId, "conv-1", l.participants, l.initialState)
  \/ \E sid \in SessionIds, u \in Callers, i \in InteractInputs :
       InteractWithApp(sid, u, i.action, i.data)
  \/ \E c \in BagToSet(appCalls) : InteractWithAppResume(c)
  \/ \E sid \in SessionIds, u \in Callers : CloseApp(sid, u)
  \/ \E sid \in SessionIds : GetAppState(sid)
  \/ Tick

NextGame ==
  \/ \E i \in StartInputs : StartGame(i.gameTypeId, i.playerAddresses)
  \/ \E g \in GameIds, p \in Joiners : JoinGame(g, p)
  \/ \E g \in GameIds, p \in Movers, m \in Moves, isCorrect \in BOOLEAN :
       MakeMove(g, p, m, isCorrect)
  \/ \E g \in GameIds, p \in Bettors : PlaceBet(g, p, 1, "up")
  \/ \E g \in GameIds : GetGameStatus(g)

NextSplit ==
  \/ \E i \in SplitInputs :
       CreatePaymentSplit(i.totalAmount, "USDC", i.participants, i.method)
  \/ \E e \in EventInputs : CreateEvent(e.participants, e.budget)

NextKit ==
  \/ \E walletOk \in BOOLEAN, kitOk \in BOOLEAN : Initialize(walletOk, kitOk)
  \/ \E i \in KitSplitInputs : KitCreatePaymentSplit(i.totalAmount, i.participants)
  \/ \E c \in BagToSet(kitCalls) :
       \E i \in 1..Len(c.participants), llm \in LLMOutcomes :
         KitTransferSettles(c, i, llm)
  \/ \E c \in BagToSet(kitCalls) : KitCreatePaymentSplitReturn(c)
  \/ Tick

NextEvents ==
  \/ \E walletOk \in BOOLEAN, kitOk \in BOOLEAN : Initialize(walletOk, kitOk)
  \/ \E e \in EventInputs : PlanEvent(e.participants, e.budget)
  \/ \E c \in BagToSet(eventCalls), walletOk \in BOOLEAN : PlanEventReturn(c, walletOk)
  \/ \E x \in ExpenseInputs : AddExpense(x.eventId, x.amount, x.paidBy, x.sharedWith)
  \/ Tick

\* nothing has been done yet with the MiniAppAgent, GameAgent, src/lib
\* UtilityAgent, or with the AgentKit agent's splits or events
appIdle == sessionObjs = <<>> /\ appCalls = EmptyBag /\ appResult = NoAppResult

gameIdle == activeGames = <<>> /\ gameResult = NoGameResult

libIdle == paymentSplits = <<>> /\ events = <<>>

kitIdle == kitSplits = EmptyObject /\ kitCalls = EmptyBag /\ kitResult = NoKitResult

eventsIdle ==
  /\ eventPlans = EmptyObject
  /\ expenses = EmptyObject
  /\ eventCalls = EmptyBag
  /\ eventResult = NoEventResult

\* the agents are separate objects with separate stores: each one is run
\* while the others are at rest
NextAgents ==
  \/ gameIdle /\ libIdle /\ kitIdle /\ eventsIdle /\ ~walletProvider /\ NextMiniApp
  \/ appIdle /\ libIdle /\ kitIdle /\ eventsIdle /\ ~walletProvider /\ now = 0
       /\ NextGame
  \/ appIdle /\ gameIdle /\ kitIdle /\ eventsIdle /\ ~walletProvider /\ now = 0
       /\ NextSplit
  \/ appIdle /\ gameIdle /\ libIdle /\ eventsIdle /\ NextKit
  \/ appIdle /\ gameIdle /\ libIdle /\ kitIdle /\ NextEvents

NextReimb ==
  \/ \E walletOk \in BOOLEAN, kitOk \in BOOLEAN : Initialize(walletOk, kitOk)
  \/ \E x \in ExpenseInputs : AddExpense(x.eventId, x.amount, x.paidBy, x.sharedWith)
  \/ \E e \in {NoEvent, 0} : ProcessReimbursements("conv-1", e)
  \/ \E c \in BagToSet(reimbCalls), llm \in LLMOutcomes : ReimburseTransfer(c, llm)

NextHandle ==
  \/ \E h \in MessageHandlers, m \in HandleInputs : HandleMessage(h, m)
  \/ \E c \in BagToSet(llmCalls), llm \in LLMOutcomes : HandleMessageResume(c, llm)

Next ==
  NextChat \/ NextRouter \/ NextMiniApp \/ NextGame \/ NextSplit \/ NextKit
    \/ NextEvents \/ NextHandle \/ NextReimb

Spec == Init /\ [][Next]_vars

SpecChat == Init /\ [][NextChat]_vars

\* POST /api/agents alone, its requests interleaving at their awaits
SpecServer == Init /\ [][NextAdmin]_vars

SpecRouter == Init /\ [][NextRouter]_vars

SpecMiniApp == Init /\ [][NextMiniApp]_vars

SpecGame == Init /\ [][NextGame]_vars

\* a call of makeMove by some player of some game
MakeMoveStep ==
  \E g \in GameIds, p \in Movers, m \in Moves, isCorrect \in BOOLEAN :
    MakeMove(g, p, m, isCorrect)

\* the GameAgent under fair scheduling: a call that can be made is made, and
\* the players keep making the moves that are open to them
SpecGameFair ==
  Init /\ [][NextGame]_vars /\ WF_vars(NextGame) /\ WF_vars(MakeMoveStep)

SpecSplit == Init /\ [][NextSplit]_vars

SpecKit == Init /\ [][NextKit]_vars

SpecEvents == Init /\ [][NextEvents]_vars

SpecAgents == Init /\ [][NextAgents]_vars

SpecHandle == Init /\ [][NextHandle]_vars

SpecReimb == Init /\ [][NextReimb]_vars

-----------------------------------------------------------------------------
(* Properties of dispatch and hand-off *)

\* the lowercased content contains a keyword of handler h and of no other handler
onlyKeywordHandler(content, h) ==
  /\ \E k \in 1..Len(keywordsOf(h)) :
       includes(toLowerCase(content), keywordsOf(h)[k])
  /\ \A g \in Handlers \ {h} :
       \A k \in 1..Len(keywordsOf(g)) :
         ~includes(toLowerCase(content), keywordsOf(g)[k])

\* C1: a message whose lowercased content contains a keyword of exactly one
\* registered non-master handler is answered by that handler.
C1_DispatchSelectsKeywordHandler ==
  \A h \in Handlers :
    (chatLog.status = 200 /\ onlyKeywordHandler(chatLog.message, h))
      => chatLog.agent = h

\* C2: hand-off for one message never chains more than one hop: at most one
\* re-dispatch, handle is invoked on at most two handlers, the responder is one
\* of them or Master, and when the second handler declines too the responder is
\* Master.
C2_AtMostOneHop ==
  /\ route.hops <= 1
  /\ Len(route.trail) <= 2
  /\ route.pc = "done" =>
       /\ route.responder \in
            {route.trail[i] : i \in 1..Len(route.trail)} \cup {masterName}
       /\ Len(route.declined) = 2 => route.responder = masterName

\* A suggested B, B declined as well and itself suggests a third registered
\* handler; Master answered.
C2_Witness ==
  /\ route.pc = "done"
  /\ route.hops = 1
  /\ Len(route.declined) = 2
  /\ route.responder = masterName
  /\ LET third == suggestNextAgent(route.declined[2], route.message)
     IN  isRegistered(third) /\ third # route.declined[1] /\ third # route.declined[2]

\* C23: the handler a message was dispatched to suggests, for that message,
\* a name the dispatcher accepts (a key of agentResponses) and never its own
C23_SuggestsRegisteredName ==
  route.pc = "handle" =>
    LET next == suggestNextAgent(route.current, route.message)
    IN  next \in agentResponseKeys /\ next # route.current

-----------------------------------------------------------------------------
\* C24: the votes a poll session records are options of that poll: a vote for
\* an option that is not among the poll's options is never recorded
C24_VoteIsAnExistingOption ==
  \A i \in 1..Len(sessionObjs) :
    LET s == sessionObjs[i] IN
    (s.appId = "poll-creator" /\ Has(s.state, "options")
       /\ Has(s.state, "votes")) =>
      \A u \in DOMAIN s.state["votes"].map :
        inList(s.state["options"], s.state["votes"].map[u])

C26_ProcessesOnlyWhileRunning ==
  [][chatReqs' \ chatReqs # {} => isHealthy(agentServer, servers)]_vars

\* an instance whose start() has returned and on which no stop() has begun
startedNotStopped(i) == servers[i] = "healthy"

\* C27: at most one agent server instance is started and not stopped
C27_AtMostOneServerRunning ==
  Cardinality({i \in 1..Len(servers) : startedNotStopped(i)}) <= 1

\* C28: a joinGame by an address that is already a player of the session
\* changes nothing: the player list and the scores stay as they were
C28_RejoinChangesNothing ==
  [][\A g \in GameIds, p \in Joiners :
       ( /\ g \in 1..Len(activeGames)
         /\ findPlayer(activeGames[g].players, p)
         /\ JoinGame(g, p) )
         => activeGames' = activeGames]_vars

\* C29: every stored GameSession has a player count between its game type's
\* minPlayers and maxPlayers inclusive, and the keys of its score map are
\* exactly its players' addresses
C29_PlayerCountAndScoreKeys ==
  \A g \in 1..Len(activeGames) :
    LET session == activeGames[g] IN
    /\ Len(session.players) >= gameTypes[session.gameType].minPlayers
    /\ Len(session.players) <= gameTypes[session.gameType].maxPlayers
    /\ DOMAIN session.scores =
         {session.players[i] : i \in 1..Len(session.players)}

\* a joinGame has just added carol, and her score, to a game started by two
C29_Witness ==
  \E g \in 1..Len(activeGames) :
    /\ activeGames[g].players = <<"alice", "bob", "carol">>
    /\ DOMAIN activeGames[g].scores = {"alice", "bob", "carol"}
    /\ gameResult.op = "joinGame"
    /\ gameResult.outcome = "ok"
    /\ gameResult.gameId = g

(* Properties of the MiniAppAgent *)

participantSet(sid) ==
  {sessionObjs[sid].participants[i] : i \in 1..Len(sessionObjs[sid].participants)}

AuthorizationErrors ==
  {"User not authorized for this session",
   "User not authorized to close this session"}

\* closeApp has succeeded on sid: only closeApp clears isActive
closed(sid) == sid \in 1..Len(sessionObjs) /\ ~sessionObjs[sid].isActive

\* C3: once closeApp has succeeded on a session id, every later
\* interactWithApp on that id, by any user, returns an authorization error
\* and leaves the session's state blob as it was.
C3_ClosedSessionRejectsWithAuthorizationError ==
  [][\A sid \in SessionIds, u \in Callers, i \in InteractInputs :
       (closed(sid) /\ InteractWithApp(sid, u, i.action, i.data))
         => /\ appResult'.op = "interactWithApp"
            /\ appResult'.sessionId = sid
            /\ appResult'.outcome = "fail"
            /\ appResult'.message \in AuthorizationErrors
            /\ sessionObjs'[sid].state = sessionObjs[sid].state]_vars

\* C5: for a session in the store and a user outside its participants,
\* interactWithApp returns the authorization failure and closeApp throws the
\* authorization error, and neither changes the session, the session store
\* or the per-user session index; on a session that has left the store such
\* a call is refused as well and changes nothing.
C5_NonParticipantRejected ==
  [][\A sid \in SessionIds, u \in Callers :
       (sid \in 1..Len(sessionObjs) /\ u \notin participantSet(sid))
         => /\ \A i \in InteractInputs :
                 InteractWithApp(sid, u, i.action, i.data)
                   => /\ appResult'.op = "interactWithApp"
                      /\ appResult'.outcome = "fail"
                      /\ sid \in activeSessions
                           => appResult'.message =
                                "User not authorized for this session"
                      /\ UNCHANGED <<sessionObjs, activeSessions, userSessions>>
            /\ CloseApp(sid, u)
                 => /\ appResult'.op = "closeApp"
                    /\ appResult'.outcome = "throw"
                    /\ sid \in activeSessions
                         => appResult'.message =
                              "User not authorized to close this session"
                    /\ UNCHANGED <<sessionObjs, activeSessions, userSessions>>]_vars

\* a non-participant's closeApp has just been refused on a live session that
\* two participants hold in their index
C5_Witness ==
  /\ appResult.op = "closeApp"
  /\ appResult.outcome = "throw"
  /\ appResult.message = "User not authorized to close this session"
  /\ appResult.sessionId \in activeSessions
  /\ sessionObjs[appResult.sessionId].isActive
  /\ participantSet(appResult.sessionId) = {"alice", "bob"}
  /\ Len(userSessions["alice"]) > 0 /\ Len(userSessions["bob"]) > 0
  /\ Len(userSessions["carol"]) = 0


-----------------------------------------------------------------------------
(* Properties of the GameAgent *)

playerSet(g) ==
  {activeGames[g].players[i] : i \in 1..Len(activeGames[g].players)}

\* C4: makeMove on a stored game by an address that is not one of its players
\* throws 'Player not in game' and leaves every stored game as it was.
C4_NonPlayerMoveRejected ==
  [][\A g \in GameIds, p \in Movers, m \in Moves, isCorrect \in BOOLEAN :
       (g \in 1..Len(activeGames) /\ p \notin playerSet(g)
          /\ MakeMove(g, p, m, isCorrect))
         => /\ gameResult' = GameReturn("makeMove", g, "throw", "Player not in game")
            /\ activeGames' = activeGames]_vars

\* a non-player's move has just been refused on a game whose players have
\* already scored
C4_Witness ==
  /\ gameResult.op = "makeMove"
  /\ gameResult.message = "Player not in game"
  /\ gameResult.gameId \in 1..Len(activeGames)
  /\ "carol" \notin playerSet(gameResult.gameId)
  /\ activeGames[gameResult.gameId].scores["alice"] > 0

\* C6: placeBet on a stored game by an address that is not one of its players
\* throws and adds no bet, so every bet of every game belongs to one of that
\* game's players.
C6_NonPlayerBetRejected ==
  [][\A g \in GameIds, p \in Bettors :
       (g \in 1..Len(activeGames) /\ p \notin playerSet(g) /\ PlaceBet(g, p, 1, "up"))
         => /\ gameResult'.outcome = "throw"
            /\ activeGames' = activeGames
            /\ \A h \in 1..Len(activeGames') :
                 \A i \in 1..Len(activeGames'[h].bets) :
                   activeGames'[h].bets[i].player \in playerSet(h)]_vars

\* C10: every stored GameSession has currentRound <= totalRounds.
C10_RoundWithinTotal ==
  \A g \in 1..Len(activeGames) :
    activeGames[g].currentRound <= activeGames[g].totalRounds

\* a three-round game in which a player has joined, moved and bet
C10_Witness ==
  \E g \in 1..Len(activeGames) :
    /\ activeGames[g].totalRounds = 3
    /\ activeGames[g].currentRound = 1
    /\ Len(activeGames[g].players) = 3
    /\ activeGames[g].scores["alice"] > 0
    /\ Len(activeGames[g].bets) > 0


\* the status changes the session state machine allows
forwardStatus(from, to) ==
  <<from, to>> \in {<<"waiting", "active">>, <<"active", "completed">>,
                    <<"waiting", "cancelled">>, <<"active", "cancelled">>}

\* C12: no step moves a stored GameSession's status except forward
\* (waiting->active, active->completed, waiting->cancelled, active->cancelled);
\* in particular a completed or cancelled session keeps its status.
C12_StatusOnlyForward ==
  [][\A g \in 1..Len(activeGames) :
       \/ activeGames'[g].status = activeGames[g].status
       \/ forwardStatus(activeGames[g].status, activeGames'[g].status)]_vars

\* a game that has been joined, played and bet on, and whose status is
\* still the one it was created with
C12_Witness ==
  \E g \in 1..Len(activeGames) :
    /\ activeGames[g].status = "waiting"
    /\ Len(activeGames[g].players) = 3
    /\ \E a \in DOMAIN activeGames[g].scores : activeGames[g].scores[a] > 0
    /\ Len(activeGames[g].bets) > 0
    /\ gameResult.op = "getGameStatus"
    /\ gameResult.message = "waiting"

\* C17: POST /api/chat never lets an error leave it: whatever request.json()
\* or processMessage throws, POST returns a response value
C17_DispatchNeverThrows == chatLog # RawException

\* with the agent server running, a request whose processing threw was
\* answered with status 500
C17_Witness == chatLog = ErrorResponse(500) /\ agentServer # NoServer

\* C14: an interactWithApp run of a participant whose interaction is refused
\* (its handler returns success: false) leaves the session as it was, its
\* lastActivity and state included, and the store with it
C14_FailedInteractionLeavesSession ==
  [][\A c \in BagToSet(appCalls) :
       appCalls' = appCalls (-) SetToBag({c}) /\ ~c.result.success =>
         /\ sessionObjs'[c.sessionId] = sessionObjs[c.sessionId]
         /\ activeSessions' = activeSessions]_vars

\* C15: create_payment_split and plan_event write their store only once the
\* external call's result is known: the step that starts the transfers, or
\* the wallet call, leaves the store as it was, and a run whose external call
\* failed returns with nothing stored under its id
C15_StoreWrittenAfterExternalCall ==
  [][/\ BagCardinality(kitCalls') > BagCardinality(kitCalls) =>
          kitSplits' = kitSplits
     /\ BagCardinality(eventCalls') > BagCardinality(eventCalls) =>
          eventPlans' = eventPlans
     /\ \A c \in BagToSet(kitCalls) :
          /\ kitCalls' = kitCalls (-) SetToBag({c})
          /\ \E i \in 1..Len(c.participants) : ~kitResult'.lines[i].success
          => ~Has(kitSplits', c.splitId)
     /\ \A c \in BagToSet(eventCalls) :
          /\ eventCalls' = eventCalls (-) SetToBag({c})
          /\ eventResult'.wallet = "failed"
          => ~Has(eventPlans', c.eventId)]_vars

\* C16: a create never overwrites an entry of a session store: every step
\* that stores a PaymentSplit or an EventPlan of the AgentKit agent does so
\* under an id the store did not hold (add_expense, which changes a stored
\* event, always adds to the expenses map as well)
C16_CreateNeverOverwrites ==
  [][/\ kitSplits' # kitSplits => DOMAIN kitSplits' # DOMAIN kitSplits
     /\ eventPlans' # eventPlans /\ expenses' = expenses =>
          DOMAIN eventPlans' # DOMAIN eventPlans]_vars

gameSessionOps == {"joinGame", "makeMove", "placeBet", "getGameStatus"}

appSessionOps == {"interactWithApp", "closeApp", "getAppState"}

\* C18: a GameAgent or MiniAppAgent session operation called with an id that
\* is not in the store (never issued, or closed and deleted) ends with
\* 'not found' and leaves every store as it was.  A step with appCalls
\* unchanged is a call from its start; the other steps suspend or resume an
\* interactWithApp that found its session.
C18_UnknownSessionNotFound ==
  [][/\ ( /\ gameResult' # gameResult \/ activeGames' # activeGames
          /\ gameResult'.op \in gameSessionOps
          /\ gameResult'.gameId \notin 1..Len(activeGames) )
        => /\ gameResult'.outcome = "throw"
           /\ gameResult'.message = "Game not found"
           /\ UNCHANGED <<activeGames, appVars, splitVars, eventVars, handleVars>>
     /\ ( /\ appCalls' = appCalls
          /\ \/ appResult' # appResult
             \/ <<sessionObjs, activeSessions, userSessions>>' #
                  <<sessionObjs, activeSessions, userSessions>>
          /\ appResult'.op \in appSessionOps
          /\ appResult'.sessionId \notin activeSessions )
        => /\ appResult'.outcome \in {"fail", "throw"}
           /\ appResult'.message = "Session not found"
           /\ UNCHANGED <<sessionObjs, activeSessions, userSessions, now>>
           /\ UNCHANGED <<gameVars, splitVars, eventVars, handleVars>>]_vars

\* a session that was launched and then closed and deleted, on which a
\* further operation ended with 'Session not found'
C18_Witness ==
  /\ Len(sessionObjs) > 0
  /\ activeSessions = {}
  /\ appCalls = EmptyBag
  /\ \A u \in DOMAIN userSessions : userSessions[u] = <<>>
  /\ appResult.op \in {"interactWithApp", "getAppState"}
  /\ appResult.message = "Session not found"

\* C21: a startGame with a known game type and a player count within the
\* type's bounds appends exactly one session, 'waiting', in round 1, with the
\* given players in order and a score of 0 for each, and leaves the stored
\* sessions as they were; any other startGame throws and stores nothing
C21_StartGameAddsOneWaitingSession ==
  [][\A i \in StartInputs :
       StartGame(i.gameTypeId, i.playerAddresses) =>
         IF /\ i.gameTypeId \in gameTypeIds
            /\ Len(i.playerAddresses) >= gameTypes[i.gameTypeId].minPlayers
            /\ Len(i.playerAddresses) <= gameTypes[i.gameTypeId].maxPlayers
         THEN /\ Len(activeGames') = Len(activeGames) + 1
              /\ SubSeq(activeGames', 1, Len(activeGames)) = activeGames
              /\ LET session == activeGames'[Len(activeGames')]
                 IN /\ session.gameType = i.gameTypeId
                    /\ session.status = "waiting"
                    /\ session.currentRound = 1
                    /\ session.players = i.playerAddresses
                    /\ DOMAIN session.scores =
                         {i.playerAddresses[k] : k \in 1..Len(i.playerAddresses)}
                    /\ \A a \in DOMAIN session.scores : session.scores[a] = 0
                    /\ session.bets = <<>>
              /\ gameResult'.outcome = "ok"
         ELSE /\ activeGames' = activeGames
              /\ gameResult'.outcome = "throw"]_vars

\* a trivia game just started with alice and bob
C21_Witness ==
  /\ gameResult.op = "startGame"
  /\ gameResult.outcome = "ok"
  /\ \E g \in 1..Len(activeGames) :
       /\ gameResult.gameId = g
       /\ activeGames[g].gameType = "trivia"
       /\ activeGames[g].players = <<"alice", "bob">>
       /\ activeGames[g].scores = [a \in {"alice", "bob"} |-> 0]

\* the addresses of a PaymentSplit's participants, in order
addressesOf(split) ==
  [i \in 1..Len(split.participants) |-> split.participants[i].address]

-----------------------------------------------------------------------------
(* Properties of payment splits *)

RECURSIVE sumOwed(_)
sumOwed(participants) ==
  IF participants = <<>> THEN Fraction(0, 1)
  ELSE jsAdd(participants[1].amount, sumOwed(Tail(participants)))

\* |x - total| <= 1e-6
withinTolerance(x, total) ==
  x.kind = "finite" /\ Abs(x.n - total * x.d) * 1000000 <= x.d

equalSplitSumsToTotal(split) ==
  split.method = "equal"
    => withinTolerance(sumOwed(split.participants), split.totalAmount)

\* C7: in every stored equal-method split, whatever the total and the
\* participant list, the owed amounts add up to totalAmount within 1e-6.
C7_EqualSplitSumsToTotal ==
  /\ \A k \in 1..Len(paymentSplits) : equalSplitSumsToTotal(paymentSplits[k])
  /\ \A id \in DOMAIN kitSplits : equalSplitSumsToTotal(kitSplits[id])

unpaidAndUnsettled(id, p) ==
  /\ id \in DOMAIN kitSplits
  /\ kitSplits[id].status # "settled"
  /\ \A j \in 1..Len(kitSplits[id].participants) :
       kitSplits[id].participants[j].address = p
         => ~kitSplits[id].participants[j].paid

C9_AllSucceededMeansSettled ==
  ( /\ kitResult.splitId \in DOMAIN kitSplits
    /\ Len(kitResult.participants) > 0
    /\ \A i \in 1..Len(kitResult.participants) :
         kitResult.outcomes[i].kind = "returned" )
    => /\ kitSplits[kitResult.splitId].status = "settled"
       /\ \A j \in 1..Len(kitSplits[kitResult.splitId].participants) :
            kitSplits[kitResult.splitId].participants[j].paid


-----------------------------------------------------------------------------
(* Properties of handleMessage *)

\* none of the handler's intent tests matches the lowercased content
noFastPath(handler, content) ==
  CASE handler = utilityName ->
         ~isEventPlanningQuery(content) /\ ~isPaymentQuery(content)
    [] handler = gameName ->
         /\ ~isGameStartRequest(content)
         /\ ~isGameMove(content)
         /\ ~isBettingRequest(content)
    [] handler = tradingName -> tradingIntent(content) = "unknown"
    [] OTHER -> FALSE

\* C19: a response to a message that matches none of the handler's intent
\* tests comes from processWithLLM: the run awaited a completion and the
\* response's message is that completion's text
C19_FallbackReturnsCompletion ==
  handled.outcome = "returned"
    /\ noFastPath(handled.handler, toLowerCase(handled.content))
  => /\ handled.llm.kind = "returned"
     /\ handled.message = handled.llm.text

\* C20: once the UtilityAgent has answered the request to split 120 equally
\* between alice, bob and carol, its store holds a PaymentSplit with exactly
\* these three participants, each owing 40 and unpaid
C20_SplitRequestCreatesSplit ==
  handled.handler = utilityName /\ handled.content = splitRequest
    /\ handled.outcome = "returned"
  => \E i \in 1..Len(paymentSplits) :
       /\ addressesOf(paymentSplits[i]) = <<"alice", "bob", "carol">>
       /\ \A j \in 1..Len(paymentSplits[i].participants) :
            /\ paymentSplits[i].participants[j].amount = jsDivide(120, 3)
            /\ ~paymentSplits[i].participants[j].paid

-----------------------------------------------------------------------------
(* Properties of process_reimbursements *)

\* the process_reimbursements runs in flight for one conversation
inFlight(conversationId) ==
  BagCardinality([c \in {x \in BagToSet(reimbCalls) :
                           x.conversationId = conversationId} |-> reimbCalls[c]])

\* C22: the messages of one conversation are processed one at a time: no run
\* for a conversation begins while an earlier run for it is still in flight
C22_OneRunPerConversation ==
  \A c \in BagToSet(reimbCalls) : inFlight(c.conversationId) <= 1

\* C30: a share is reimbursed at most once: a process_reimbursements run that
\* begins after a participant's share of an expense was transferred does not
\* plan a transfer for that share again
C30_ShareReimbursedOnce ==
  [][\A c \in BagToSet(reimbCalls') :
       CopiesIn(c, reimbCalls') > CopiesIn(c, reimbCalls)
         /\ c.reimbursements = <<>>
       => \A k \in 1..Len(c.shares) : ~BagIn(c.shares[k], ledger)]_vars

=============================================================================
